---- MODULE Spec2Model ----
(***************************************************************************)
(* Model of human_eval_infilling: evaluate() of evaluate.py (the          *)
(* dispatch loop over a ThreadPoolExecutor, the fan-in over as_completed, *)
(* the pass@k statistics and the report assembly) and the problem cache   *)
(* of data.py.                                                            *)
(***************************************************************************)
EXTENDS Integers, Sequences, FiniteSets, TLC

(* ------------------------------------------------------------------ *)
(* Bounds of the model                                                *)
(* ------------------------------------------------------------------ *)

\* longest sample stream (lines of sample_file)
MaxSamples == 3

\* read_problems calls made one after the other
MaxCalls == 3

\* largest sample count n given to the estimator
MaxN == 7

\* most records given to one write_jsonl call
MaxRecords == 2

\* largest worker count n_workers tried
MaxWorkers == 2

\* the requested k list is <<1, ..., MaxK>>
MaxK == 2

(* ------------------------------------------------------------------ *)
(* Inputs                                                             *)
(* ------------------------------------------------------------------ *)

\* keys of benchmark_files / benchmark_file_names (two of the five)
BenchmarkNames == {"test", "single_line"}

\* a name that is no key of benchmark_file_names
UnknownBenchmark == "no_such_benchmark"

\* task_ids of the problems stored in a benchmark's cache file
ProblemTaskIds(name) == IF name = "test" THEN {"A"} ELSE {"A", "B"}

\* task_ids a sample line may carry
SampleTaskIds == {"A", "B"}

\* completion texts: one that passes the tests, one that fails them, one
\* that does not return within the timeout
Completions == {"ok", "bad", "hang"}

Samples == [task_id : SampleTaskIds, completion : Completions]

Streams == UNION {[1..n -> Samples] : n \in 0..MaxSamples}

\* ".jsonl" and ".gz" as they end a file name (a name is a tuple of chars)
DotJsonl == <<".", "j", "s", "o", "n", "l">>
DotGz == <<".", "g", "z">>

\* the names a sample file is given: <base>.jsonl and <base>.jsonl.gz
SampleNames == {<<"s">> \o DotJsonl, <<"s">> \o DotJsonl \o DotGz}

\* evaluate's parameter k
ks == [i \in 1..MaxK |-> i]

(* ------------------------------------------------------------------ *)
(* Exact rational arithmetic: <<numerator, denominator>>              *)
(* ------------------------------------------------------------------ *)

RECURSIVE GCD(_, _)
GCD(a, b) == IF b = 0 THEN a ELSE GCD(b, a % b)

Norm(q) ==
    LET g == GCD(IF q[1] < 0 THEN -q[1] ELSE q[1], q[2])
    IN  IF g = 0 THEN q ELSE <<q[1] \div g, q[2] \div g>>

RAdd(p, q) == Norm(<<p[1] * q[2] + q[1] * p[2], p[2] * q[2]>>)
RSub(p, q) == Norm(<<p[1] * q[2] - q[1] * p[2], p[2] * q[2]>>)
RMul(p, q) == Norm(<<p[1] * q[1], p[2] * q[2]>>)
RDivInt(p, n) == Norm(<<p[1], p[2] * n>>)

(* ------------------------------------------------------------------ *)
(* State                                                              *)
(* ------------------------------------------------------------------ *)

VARIABLES
    benchmark_name,   \* argument of evaluate
    sample_name,      \* argument sample_file of evaluate: the file's name
    sample_file,      \* the records stream_jsonl(sample_file) yields
    n_workers,        \* argument of evaluate
    pc,               \* position of the main thread in evaluate
    problems,         \* task_ids of read_problems' result
    futures,          \* the list futures: work items of the executor
    completion_id,    \* Counter: task_id -> next id (0 for a key not inserted)
    n_samples,        \* samples dispatched so far
    yielded,          \* indices of the futures as_completed has yielded
    results,          \* defaultdict(list): task_id -> <<(completion_id, result)>>
                      \* (the empty list for a key not inserted)
    resultsKeys,      \* insertion order of the keys of results
    total,            \* array of len(passed) per results.values()
    correct,          \* array of sum(passed) per results.values()
    pass_at_k,        \* the dict pass_at_k, as the set of its <<k, mean>> items
    output_results,   \* the report under assembly
    pos,              \* second pass over the stream: samples consumed
    out_file,         \* the documents written to the report file (none: {})
    out_name,         \* the name out_file of the report file, <<>> until set
    invocations,      \* history: how often check_correctness ran per sample
    cache_dir,        \* os.path.exists(CACHE_DIR)
    cache_file,       \* per benchmark: pieces in its cache file, NoFile if none
    dpc,              \* position of a read_problems call in data.py
    arg,              \* benchmark_name of the read_problems call
    tmp_file,         \* pieces in data.jsonl.gz of the TempDir, NoFile if none
    plus,             \* pieces of the decompressed text held in memory
    read_result,      \* task_ids of the dict the last read_problems returned
    calls,            \* read_problems calls made so far
    est_n,            \* estimator: argument n
    est_c,            \* estimator: argument c
    est_k,            \* estimator: argument k
    est_out,          \* estimator: the returned value, <<>> before the call
    jl_gz,            \* write_jsonl / stream_jsonl: filename ends with ".gz"
    jl_file,          \* content of that file, <<>> if it does not exist
    jl_calls,         \* history: the write_jsonl calls made, in order
    jl_read,          \* the records stream_jsonl yielded
    jl_pc             \* position of the caller of write_jsonl / stream_jsonl

evalVars == <<benchmark_name, sample_name, sample_file, n_workers, pc,
              problems, futures, completion_id, n_samples, yielded, results,
              resultsKeys, total, correct, pass_at_k, output_results, pos,
              out_file, out_name, invocations>>

cacheVars == <<cache_dir, cache_file, dpc, arg, tmp_file, plus, read_result,
               calls>>

estVars == <<est_n, est_c, est_k, est_out>>

jsonlVars == <<jl_gz, jl_file, jl_calls, jl_read, jl_pc>>

\* the state of the functions no call of which is under way
pureVars == <<estVars, jsonlVars>>

vars == <<evalVars, cacheVars, pureVars>>

\* the dict output_results["eval"]: a key whose list is empty is absent
NoEval == [t \in SampleTaskIds |-> <<>>]

EmptyReport == [pass_at_k |-> {}, eval |-> NoEval]

\* a path at which no file exists
NoFile == -1

\* a cache file holds one line per problem; a line is written in two pieces,
\* so that a file may end inside a line
Full(name) == 2 * Cardinality(ProblemTaskIds(name))

\* the size of the largest cache file
MaxFull == Full("single_line")

\* no read_problems call is under way and the cache is as a successful
\* earlier call left it
CacheAtRest ==
    /\ cache_dir = TRUE
    /\ cache_file = [b \in BenchmarkNames |-> Full(b)]
    /\ dpc = "idle"
    /\ arg = "test"
    /\ tmp_file = NoFile
    /\ plus = NoFile
    /\ read_result = {}
    /\ calls = 0

\* no estimator call is under way
EstAtRest ==
    /\ est_n = 1
    /\ est_c = 0
    /\ est_k = 1
    /\ est_out = <<>>

\* no write_jsonl / stream_jsonl call is under way
JsonlAtRest ==
    /\ jl_gz = FALSE
    /\ jl_file = <<>>
    /\ jl_calls = <<>>
    /\ jl_read = <<>>
    /\ jl_pc = "idle"

PureAtRest == EstAtRest /\ JsonlAtRest

\* evaluate is called
EvalStart ==
    /\ benchmark_name \in BenchmarkNames \cup {UnknownBenchmark}
    /\ sample_name \in SampleNames
    /\ out_name = <<>>
    /\ sample_file \in Streams
    /\ n_workers \in 1..MaxWorkers
    /\ pc = "LoadingProblems"
    /\ problems = {}
    /\ futures = <<>>
    /\ completion_id = [t \in SampleTaskIds |-> 0]
    /\ n_samples = 0
    /\ yielded = {}
    /\ results = [t \in SampleTaskIds |-> <<>>]
    /\ resultsKeys = <<>>
    /\ total = <<>>
    /\ correct = <<>>
    /\ pass_at_k = {}
    /\ output_results = EmptyReport
    /\ pos = 0
    /\ out_file = {}
    /\ invocations = <<>>

Init == CacheAtRest /\ PureAtRest /\ EvalStart

(* ------------------------------------------------------------------ *)
(* The sandbox and the statistics                                     *)
(* ------------------------------------------------------------------ *)

\* the dict check_correctness returns for (problem, completion, timeout,
\* completion_id): a completion that fails or does not return in time
\* still yields a result, with passed = False
check_correctness(task_id, completion, cid) ==
    [task_id |-> task_id,
     completion_id |-> cid,
     passed |-> (completion = "ok"),
     result |-> CASE completion = "ok" -> "passed"
                  [] completion = "hang" -> "timed out"
                  [] OTHER -> "failed"]

\* the result slot of a future that has not finished
NoResult == [task_id |-> "", completion_id |-> -1, passed |-> FALSE,
             result |-> "not finished"]

RECURSIVE RProd(_, _, _)
\* np.prod(1.0 - k / np.arange(lo, hi + 1))
RProd(lo, hi, k) ==
    IF lo > hi THEN <<1, 1>>
    ELSE RMul(<<lo - k, lo>>, RProd(lo + 1, hi, k))

\* mutant: the shortcut is taken one step too early
estimatorShortcutAtEqual(n, c, k) ==
    IF n - c <= k THEN <<1, 1>>
    ELSE RSub(<<1, 1>>, RProd(n - c + 1, n, k))

estimator(n, c, k) ==
    IF n - c < k THEN <<1, 1>>
    ELSE RSub(<<1, 1>>, RProd(n - c + 1, n, k))

estimate_pass_at_k(num_samples, num_correct, k) ==
    [i \in 1..Len(num_correct) |-> estimator(num_samples[i], num_correct[i], k)]

RECURSIVE RSum(_)
RSum(a) == IF a = <<>> THEN <<0, 1>> ELSE RAdd(Head(a), RSum(Tail(a)))

\* ndarray.mean(); the mean of an empty array is nan
mean(a) == IF a = <<>> THEN <<0, 0>> ELSE RDivInt(RSum(a), Len(a))

\* mutant: (total >= k).any(), one problem with enough samples suffices
AnyAtLeast(tot, k) == \E i \in 1..Len(tot) : tot[i] >= k

\* (total >= k).all()
AllAtLeast(tot, k) == \A i \in 1..Len(tot) : tot[i] >= k

\* mutant: a k without enough samples is reported as zero
PassAtKOrZero(tot, cor) ==
    {<<ks[j], IF AllAtLeast(tot, ks[j])
              THEN mean(estimate_pass_at_k(tot, cor, ks[j]))
              ELSE <<0, 1>>>> : j \in 1..Len(ks)}

\* the dict comprehension of pass_at_k
PassAtK(tot, cor) ==
    {<<ks[j], mean(estimate_pass_at_k(tot, cor, ks[j]))>> :
        j \in {i \in 1..Len(ks) : AllAtLeast(tot, ks[i])}}

RECURSIVE SortById(_)
\* list.sort() of (completion_id, result) tuples: ascending completion_id
SortById(l) ==
    IF l = <<>> THEN <<>>
    ELSE LET m == CHOOSE i \in 1..Len(l) :
                      \A j \in 1..Len(l) : l[i][1] <= l[j][1]
             rest == [j \in 1..(Len(l) - 1) |-> IF j < m THEN l[j] ELSE l[j + 1]]
         IN  <<l[m]>> \o SortById(rest)

\* mutant: every result counts as passed
CountAll(l) == Len(l)

RECURSIVE CountTrue(_)
\* sum(passed)
CountTrue(l) ==
    IF l = <<>> THEN 0
    ELSE (IF Head(l)[2].passed THEN 1 ELSE 0) + CountTrue(Tail(l))

(* ------------------------------------------------------------------ *)
(* evaluate: loading and the dispatch loop                            *)
(* ------------------------------------------------------------------ *)

\* problems = read_problems(benchmark_name): a name that is no key raises
\* KeyError, a failed download or decompression raises as well
LoadProblems ==
    /\ pc = "LoadingProblems"
    /\ \E fetched \in BOOLEAN :
          IF benchmark_name \in BenchmarkNames /\ fetched
          THEN /\ problems' = ProblemTaskIds(benchmark_name)
               /\ pc' = "Dispatching"
          ELSE /\ problems' = problems
               /\ pc' = "Error"
    /\ UNCHANGED <<sample_name,
                   benchmark_name, sample_file, n_workers, futures,
                   completion_id, n_samples, yielded, results, resultsKeys,
                   total, correct, pass_at_k, output_results, pos, out_file,
                   invocations>>
    /\ UNCHANGED <<out_name, cacheVars, pureVars>>

\* mutant: the counter is read after its increment
IncrementedFirst(counter, task_id) == counter[task_id] + 1

\* completion_id[task_id], read for the arguments of the submitted call
NextCompletionId(counter, task_id) == counter[task_id]

\* completion_id[task_id] += 1
Increment(counter, task_id) == [counter EXCEPT ![task_id] = @ + 1]

\* executor.submit(check_correctness, *args); futures.append(future)
Submitted(fs, sample, cid) ==
    Append(fs, [task_id |-> sample.task_id,
                completion |-> sample.completion,
                completion_id |-> cid,
                state |-> "PENDING",
                result |-> NoResult])

\* one iteration of the loop over stream_jsonl(sample_file);
\* problems[task_id] raises KeyError inside the with block
Dispatch ==
    /\ pc = "Dispatching"
    /\ n_samples < Len(sample_file)
    /\ LET sample == sample_file[n_samples + 1]
       IN  IF sample.task_id \in problems
           THEN /\ futures' = Submitted(futures, sample,
                                  NextCompletionId(completion_id, sample.task_id))
                /\ invocations' = Append(invocations, 0)
                /\ completion_id' = Increment(completion_id, sample.task_id)
                /\ n_samples' = n_samples + 1
                /\ pc' = pc
           ELSE /\ pc' = "Aborting"
                /\ UNCHANGED <<futures, invocations, completion_id, n_samples>>
    /\ UNCHANGED <<sample_name,
                   benchmark_name, sample_file, n_workers, problems, yielded,
                   results, resultsKeys, total, correct, pass_at_k,
                   output_results, pos, out_file>>
    /\ UNCHANGED <<out_name, cacheVars, pureVars>>

\* len(completion_id): the keys the loop has inserted
CounterKeys(counter) == {t \in DOMAIN counter : counter[t] > 0}

\* mutant: the assert only rejects more keys than problems
NotMoreThanProblems(counter, probs) ==
    Cardinality(CounterKeys(counter)) <= Cardinality(probs)

\* the condition of: assert len(completion_id) == len(problems)
AllAttempted(counter, probs) ==
    Cardinality(CounterKeys(counter)) = Cardinality(probs)

\* the stream is exhausted: the assert, then as_completed(futures)
EndDispatch ==
    /\ pc = "Dispatching"
    /\ n_samples = Len(sample_file)
    /\ pc' = IF AllAttempted(completion_id, problems)
             THEN "AwaitingResults" ELSE "Aborting"
    /\ UNCHANGED <<sample_name,
                   benchmark_name, sample_file, n_workers, problems, futures,
                   completion_id, n_samples, yielded, results, resultsKeys,
                   total, correct, pass_at_k, output_results, pos, out_file,
                   invocations>>
    /\ UNCHANGED <<out_name, cacheVars, pureVars>>

(* ------------------------------------------------------------------ *)
(* ThreadPoolExecutor(max_workers=n_workers)                          *)
(* ------------------------------------------------------------------ *)

InState(fs, st) == {i \in 1..Len(fs) : fs[i].state = st}

\* mutant: a thread per work item
AlwaysFree(fs, max_workers) == TRUE

\* a worker thread is idle: the pool never has more than max_workers threads
WorkerFree(fs, max_workers) == Cardinality(InState(fs, "RUNNING")) < max_workers

\* a worker takes the oldest queued work item and calls check_correctness
WorkerStart ==
    /\ InState(futures, "PENDING") # {}
    /\ WorkerFree(futures, n_workers)
    /\ LET i == CHOOSE j \in InState(futures, "PENDING") :
                    \A h \in InState(futures, "PENDING") : j <= h
       IN  /\ futures' = [futures EXCEPT ![i].state = "RUNNING"]
           /\ invocations' = [invocations EXCEPT ![i] = @ + 1]
    /\ UNCHANGED <<sample_name,
                   benchmark_name, sample_file, n_workers, pc, problems,
                   completion_id, n_samples, yielded, results, resultsKeys,
                   total, correct, pass_at_k, output_results, pos, out_file>>
    /\ UNCHANGED <<out_name, cacheVars, pureVars>>

\* mutant: a work item whose call did not pass is queued again
RetryUnlessPassed(r) == IF r.passed THEN "FINISHED" ELSE "PENDING"

\* mutant: a call that ran out of time keeps its worker
RunningIfTimedOut(r) == IF r.result = "timed out" THEN "RUNNING" ELSE "FINISHED"

\* the state of a work item whose call has returned result r
StateAfterRun(r) == "FINISHED"

\* check_correctness returns: future.set_result(result)
WorkerFinish ==
    /\ \E i \in InState(futures, "RUNNING") :
          LET r == check_correctness(futures[i].task_id, futures[i].completion,
                                     futures[i].completion_id)
          IN  futures' = [futures EXCEPT ![i].state = StateAfterRun(r),
                                         ![i].result = r]
    /\ UNCHANGED <<sample_name,
                   benchmark_name, sample_file, n_workers, pc, problems,
                   completion_id, n_samples, yielded, results, resultsKeys,
                   total, correct, pass_at_k, output_results, pos, out_file,
                   invocations>>
    /\ UNCHANGED <<out_name, cacheVars, pureVars>>

\* mutant: shutdown(wait=False)
ShutdownWithoutWait(fs) == TRUE

\* shutdown(wait=True) returns when every submitted work item has run:
\* nothing queued is cancelled
ShutdownReturns(fs) == InState(fs, "FINISHED") = 1..Len(fs)

\* an exception left the with block: __exit__ is shutdown(wait=True)
ShutdownAfterError ==
    /\ pc = "Aborting"
    /\ ShutdownReturns(futures)
    /\ pc' = "Error"
    /\ UNCHANGED <<sample_name,
                   benchmark_name, sample_file, n_workers, problems, futures,
                   completion_id, n_samples, yielded, results, resultsKeys,
                   total, correct, pass_at_k, output_results, pos, out_file,
                   invocations>>
    /\ UNCHANGED <<out_name, cacheVars, pureVars>>

(* ------------------------------------------------------------------ *)
(* evaluate: fan-in, statistics, report                               *)
(* ------------------------------------------------------------------ *)

\* the futures as_completed may yield next: finished and not yet yielded
\* (those finished before the call come out of a set, in any order)
Yieldable(fs, done) == InState(fs, "FINISHED") \ done

\* mutant: only the results that passed are kept
CollectedIfPassed(res, r) ==
    IF r.passed
    THEN [res EXCEPT ![r.task_id] = Append(@, <<r.completion_id, r>>)]
    ELSE res

\* results[result["task_id"]].append((result["completion_id"], result))
Collected(res, r) ==
    [res EXCEPT ![r.task_id] = Append(@, <<r.completion_id, r>>)]

\* one iteration of the loop over as_completed(futures)
Collect ==
    /\ pc = "AwaitingResults"
    /\ \E i \in Yieldable(futures, yielded) :
          LET result == futures[i].result
          IN  /\ yielded' = yielded \cup {i}
              /\ results' = Collected(results, result)
              /\ resultsKeys' = IF results[result.task_id] = <<>>
                                THEN Append(resultsKeys, result.task_id)
                                ELSE resultsKeys
    /\ UNCHANGED <<sample_name,
                   benchmark_name, sample_file, n_workers, pc, problems,
                   futures, completion_id, n_samples, total, correct,
                   pass_at_k, output_results, pos, out_file, invocations>>
    /\ UNCHANGED <<out_name, cacheVars, pureVars>>

\* mutant: the loop ends when no finished future is waiting to be yielded
NothingReady(fs, done) == Yieldable(fs, done) = {}

\* as_completed(futures) is exhausted when it has yielded every future
Exhausted(fs, done) == done = 1..Len(fs)

\* as_completed is exhausted; the with block is left without an exception
EndAwait ==
    /\ pc = "AwaitingResults"
    /\ Exhausted(futures, yielded)
    /\ pc' = "Aggregating"
    /\ UNCHANGED <<sample_name,
                   benchmark_name, sample_file, n_workers, problems, futures,
                   completion_id, n_samples, yielded, results, resultsKeys,
                   total, correct, pass_at_k, output_results, pos, out_file,
                   invocations>>
    /\ UNCHANGED <<out_name, cacheVars, pureVars>>

\* mutant: a list is left in the order of completion
Unsorted(l) == l

\* result.sort() of one list of results
Sorted(l) == SortById(l)

\* the loop over results.values(): sort, then total and correct in the
\* order of the dict's values
Aggregate ==
    /\ pc = "Aggregating"
    /\ results' = [t \in DOMAIN results |-> Sorted(results[t])]
    /\ total' = [i \in 1..Len(resultsKeys) |-> Len(results[resultsKeys[i]])]
    /\ correct' = [i \in 1..Len(resultsKeys) |->
                      CountTrue(results[resultsKeys[i]])]
    /\ pc' = "ComputingStats"
    /\ UNCHANGED <<sample_name,
                   benchmark_name, sample_file, n_workers, problems, futures,
                   completion_id, n_samples, yielded, resultsKeys, pass_at_k,
                   output_results, pos, out_file, invocations>>
    /\ UNCHANGED <<out_name, cacheVars, pureVars>>

\* pass_at_k = {...}; output_results = {"date", "pass_at_k", "eval": {}}
ComputeStats ==
    /\ pc = "ComputingStats"
    /\ LET computed == PassAtK(total, correct)
       IN  /\ pass_at_k' = computed
           /\ output_results' = [pass_at_k |-> computed, eval |-> NoEval]
    /\ pos' = 0
    /\ pc' = "WritingReport"
    /\ UNCHANGED <<sample_name,
                   benchmark_name, sample_file, n_workers, problems, futures,
                   completion_id, n_samples, yielded, results, resultsKeys,
                   total, correct, out_file, invocations>>
    /\ UNCHANGED <<out_name, cacheVars, pureVars>>

\* output_results["eval"][task_id] = []; ...[task_id].append(entry)
EvalWith(eval, task_id, entry) == [eval EXCEPT ![task_id] = <<entry>>]

\* one iteration of the second loop over stream_jsonl(sample_file);
\* pop(0) of an empty list raises IndexError
AssembleEntry ==
    /\ pc = "WritingReport"
    /\ pos < Len(sample_file)
    /\ LET sample == sample_file[pos + 1]
           task_id == sample.task_id
       IN  IF results[task_id] = <<>>
           THEN /\ pc' = "Error"
                /\ UNCHANGED <<results, output_results, pos>>
           ELSE LET result == Head(results[task_id])
                IN  /\ results' = [results EXCEPT ![task_id] = Tail(@)]
                    /\ output_results' =
                         [output_results EXCEPT !.eval =
                            EvalWith(@, task_id,
                                     [task_id |-> task_id,
                                      solution |-> sample.completion,
                                      result |-> result[2].result,
                                      passed |-> result[2].passed])]
                    /\ pos' = pos + 1
                    /\ pc' = pc
    /\ UNCHANGED <<sample_name,
                   benchmark_name, sample_file, n_workers, problems, futures,
                   completion_id, n_samples, yielded, resultsKeys, total,
                   correct, pass_at_k, out_file, invocations>>
    /\ UNCHANGED <<out_name, cacheVars, pureVars>>

\* out_file = sample_file[:-6] + "_eval_results.jsonl"
OutFileName(name) ==
    SubSeq(name, 1, Len(name) - 6)
        \o <<"_", "e", "v", "a", "l", "_", "r", "e", "s", "u", "l", "t", "s">>
        \o DotJsonl

\* json.dump(output_results, f); return pass_at_k
WriteReport ==
    /\ pc = "WritingReport"
    /\ pos = Len(sample_file)
    /\ out_name' = OutFileName(sample_name)
    /\ out_file' = {output_results}
    /\ pc' = "Done"
    /\ UNCHANGED <<sample_name,
                   benchmark_name, sample_file, n_workers, problems, futures,
                   completion_id, n_samples, yielded, results, resultsKeys,
                   total, correct, pass_at_k, output_results, pos,
                   invocations>>
    /\ UNCHANGED <<cacheVars, pureVars>>

Next ==
    \/ LoadProblems
    \/ Dispatch
    \/ EndDispatch
    \/ WorkerStart
    \/ WorkerFinish
    \/ ShutdownAfterError
    \/ Collect
    \/ EndAwait
    \/ Aggregate
    \/ ComputeStats
    \/ AssembleEntry
    \/ WriteReport

Spec == Init /\ [][Next]_vars

\* the steps of the thread that runs evaluate which wait for a condition
\* or read the stream
MainThread ==
    \/ LoadProblems
    \/ Dispatch
    \/ EndDispatch
    \/ ShutdownAfterError
    \/ Collect
    \/ EndAwait
    \/ AssembleEntry
    \/ WriteReport

\* the thread that runs evaluate does not stop before the sort and count
\* loop nor before the statistics: both steps are possible as soon as pc
\* points at them (weak fairness, with the condition written out)
MainThreadComputes ==
    /\ []<>(pc # "Aggregating") \/ []<><<Aggregate>>_vars
    /\ []<>(pc # "ComputingStats") \/ []<><<ComputeStats>>_vars

\* the run under fair scheduling: the main thread takes its next step when
\* it has one, an idle worker takes queued work, and a call of
\* check_correctness returns
FairSpec ==
    /\ Spec
    /\ WF_vars(MainThread)
    /\ MainThreadComputes
    /\ WF_vars(WorkerStart)
    /\ WF_vars(WorkerFinish)

(* ------------------------------------------------------------------ *)
(* data.py: read_problems and make_cache                              *)
(* ------------------------------------------------------------------ *)

\* the benchmarks whose url names a gzip file: the url of "test" ends in
\* .jsonl, and gzip.open on it raises
IsGzipUrl(name) == name # "test"

\* the problems of a benchmark in the order of the lines of its file
ProblemLines(name) == IF name = "test" THEN <<"A">> ELSE <<"A", "B">>

\* stream_jsonl of a file of n pieces: the task_ids of its complete lines
LinesRead(name, n) == {ProblemLines(name)[i] : i \in 1..(n \div 2)}

\* the last line of a file of n pieces is cut short: json.loads raises
EndsInsideLine(n) == n % 2 = 1

\* the evaluation is not running
EvalIdle ==
    /\ benchmark_name = "test"
    /\ sample_name = <<>>
    /\ out_name = <<>>
    /\ sample_file = <<>>
    /\ n_workers = 1
    /\ pc = "Idle"
    /\ problems = {}
    /\ futures = <<>>
    /\ completion_id = [t \in SampleTaskIds |-> 0]
    /\ n_samples = 0
    /\ yielded = {}
    /\ results = [t \in SampleTaskIds |-> <<>>]
    /\ resultsKeys = <<>>
    /\ total = <<>>
    /\ correct = <<>>
    /\ pass_at_k = {}
    /\ output_results = EmptyReport
    /\ pos = 0
    /\ out_file = {}
    /\ invocations = <<>>

\* the cache directory as earlier runs may have left it: each cache file
\* absent or complete
CacheStart ==
    /\ cache_file \in {f \in [BenchmarkNames -> NoFile..MaxFull] :
                            \A b \in BenchmarkNames :
                                f[b] \in {NoFile, Full(b)}}
    /\ cache_dir \in BOOLEAN
    /\ (\E b \in BenchmarkNames : cache_file[b] # NoFile) => cache_dir
    /\ dpc = "idle"
    /\ arg = "test"
    /\ tmp_file = NoFile
    /\ plus = NoFile
    /\ read_result = {}
    /\ calls = 0

InitCache == EvalIdle /\ PureAtRest /\ CacheStart

\* mutant: the name is looked up only after make_cache
LookupAfterCache(name) == "make_cache"

\* benchmark_file_names[benchmark_name]: raises KeyError for a name that is
\* no key, before make_cache is called
Lookup(name) == IF name \in BenchmarkNames THEN "make_cache" ELSE "raised"

\* read_problems(benchmark_name), called on its own
ReadProblemsCall ==
    /\ dpc \in {"idle", "returned", "raised"}
    /\ calls < MaxCalls
    /\ calls' = calls + 1
    /\ \E name \in BenchmarkNames \cup {UnknownBenchmark} :
          /\ arg' = name
          /\ dpc' = Lookup(name)
    /\ UNCHANGED <<cache_dir, cache_file, tmp_file, plus, read_result>>
    /\ UNCHANGED <<evalVars, pureVars>>

\* os.path.exists(cache_path)
CacheHit(files, name) == files[name] # NoFile

\* make_cache: if not os.path.exists(cache_path)
MakeCacheCheck ==
    /\ dpc = "make_cache"
    /\ dpc' = IF CacheHit(cache_file, arg) THEN "read" ELSE "download"
    /\ UNCHANGED <<cache_dir, cache_file, arg, tmp_file, plus, read_result,
                   calls>>
    /\ UNCHANGED <<evalVars, pureVars>>

\* wget.download(gzip_url, plus_gz_path) into the TempDir: it raises, or
\* leaves the whole file, or a file cut short
Download ==
    /\ dpc = "download"
    /\ \/ /\ tmp_file' = NoFile
          /\ dpc' = "raised"
       \/ /\ tmp_file' \in 0..Full(arg)
          /\ dpc' = "decompress"
    /\ UNCHANGED <<cache_dir, cache_file, arg, plus, read_result, calls>>
    /\ UNCHANGED <<evalVars, pureVars>>

\* gzip.open(plus_gz_path).read().decode(): raises on a file that is not a
\* complete gzip file; the TempDir is removed on the way out
Decompress ==
    /\ dpc = "decompress"
    /\ tmp_file' = NoFile
    /\ IF IsGzipUrl(arg) /\ tmp_file = Full(arg)
       THEN /\ plus' = tmp_file
            /\ dpc' = "makedirs"
       ELSE /\ plus' = plus
            /\ dpc' = "raised"
    /\ UNCHANGED <<cache_dir, cache_file, arg, read_result, calls>>
    /\ UNCHANGED <<evalVars, pureVars>>

\* if not os.path.exists(CACHE_DIR): os.makedirs(CACHE_DIR), which may raise
MakeDirs ==
    /\ dpc = "makedirs"
    /\ IF cache_dir
       THEN /\ dpc' = "open"
            /\ cache_dir' = cache_dir
       ELSE \/ /\ cache_dir' = TRUE
               /\ dpc' = "open"
            \/ /\ cache_dir' = FALSE
               /\ dpc' = "raised"
    /\ UNCHANGED <<cache_file, arg, tmp_file, plus, read_result, calls>>
    /\ UNCHANGED <<evalVars, pureVars>>

\* open(cache_path, "w"): creates the file empty, or raises
OpenCacheFile ==
    /\ dpc = "open"
    /\ \/ /\ cache_file' = [cache_file EXCEPT ![arg] = 0]
          /\ dpc' = "write"
       \/ /\ cache_file' = cache_file
          /\ dpc' = "raised"
    /\ UNCHANGED <<cache_dir, arg, tmp_file, plus, read_result, calls>>
    /\ UNCHANGED <<evalVars, pureVars>>

\* the file after f.write(plus) got n of the pieces of text to the disk
Written(files, name, n) == [files EXCEPT ![name] = n]

\* f.write(plus) and the close of the file: all of the text reaches the
\* disk, or the write raises after a part of it did
WriteCacheFile ==
    /\ dpc = "write"
    /\ \E n \in 0..plus :
          /\ cache_file' = Written(cache_file, arg, n)
          /\ dpc' = IF n = plus THEN "read" ELSE "raised"
    /\ plus' = NoFile
    /\ UNCHANGED <<cache_dir, arg, tmp_file, read_result, calls>>
    /\ UNCHANGED <<evalVars, pureVars>>

\* {task["task_id"]: task for task in stream_jsonl(benchmark_file_path)}
ReadCacheFile ==
    /\ dpc = "read"
    /\ IF EndsInsideLine(cache_file[arg])
       THEN /\ dpc' = "raised"
            /\ read_result' = read_result
       ELSE /\ dpc' = "returned"
            /\ read_result' = LinesRead(arg, cache_file[arg])
    /\ UNCHANGED <<cache_dir, cache_file, arg, tmp_file, plus, calls>>
    /\ UNCHANGED <<evalVars, pureVars>>

NextCache ==
    \/ ReadProblemsCall
    \/ MakeCacheCheck
    \/ Download
    \/ Decompress
    \/ MakeDirs
    \/ OpenCacheFile
    \/ WriteCacheFile
    \/ ReadCacheFile

SpecCache == InitCache /\ [][NextCache]_vars

(* ------------------------------------------------------------------ *)
(* evaluate with read_problems in full                                *)
(* ------------------------------------------------------------------ *)

\* evaluate is called with the cache directory as earlier runs left it
InitRun == EvalStart /\ CacheStart /\ PureAtRest

\* evaluate calls read_problems(benchmark_name)
CallReadProblems ==
    /\ pc = "LoadingProblems"
    /\ dpc = "idle"
    /\ arg' = benchmark_name
    /\ dpc' = Lookup(benchmark_name)
    /\ UNCHANGED <<cache_dir, cache_file, tmp_file, plus, read_result, calls>>
    /\ UNCHANGED <<evalVars, pureVars>>

\* problems = read_problems(benchmark_name) returns
ReadProblemsReturn ==
    /\ pc = "LoadingProblems"
    /\ dpc = "returned"
    /\ problems' = read_result
    /\ pc' = "Dispatching"
    /\ UNCHANGED <<sample_name, benchmark_name, sample_file, n_workers,
                   futures, completion_id, n_samples, yielded, results,
                   resultsKeys, total, correct, pass_at_k, output_results,
                   pos, out_file, invocations>>
    /\ UNCHANGED <<out_name, cacheVars, pureVars>>

\* read_problems raises: the exception leaves evaluate
ReadProblemsRaise ==
    /\ pc = "LoadingProblems"
    /\ dpc = "raised"
    /\ pc' = "Error"
    /\ UNCHANGED <<sample_name, benchmark_name, sample_file, n_workers,
                   problems, futures, completion_id, n_samples, yielded,
                   results, resultsKeys, total, correct, pass_at_k,
                   output_results, pos, out_file, invocations>>
    /\ UNCHANGED <<out_name, cacheVars, pureVars>>

NextRun ==
    \/ CallReadProblems
    \/ MakeCacheCheck
    \/ Download
    \/ Decompress
    \/ MakeDirs
    \/ OpenCacheFile
    \/ WriteCacheFile
    \/ ReadCacheFile
    \/ ReadProblemsReturn
    \/ ReadProblemsRaise
    \/ Dispatch
    \/ EndDispatch
    \/ WorkerStart
    \/ WorkerFinish
    \/ ShutdownAfterError
    \/ Collect
    \/ EndAwait
    \/ Aggregate
    \/ ComputeStats
    \/ AssembleEntry
    \/ WriteReport

SpecRun == InitRun /\ [][NextRun]_vars

(* ------------------------------------------------------------------ *)
(* data.py: write_jsonl and stream_jsonl                              *)
(* ------------------------------------------------------------------ *)

\* A text is a tuple of characters; "LF" is the newline, "SPACE" the blank,
\* "BACKSLASH" and "QUOTE" the two characters json escapes.  A record is a
\* dict with one string value, given by the text of that value.
RecordTexts ==
    {<<>>, <<"x">>, <<"SPACE">>, <<"LF">>, <<"QUOTE">>, <<"BACKSLASH", "n">>}

RecordLists == UNION {[1..n -> RecordTexts] : n \in 0..MaxRecords}

RECURSIVE Escape(_)
\* the body of the string literal json.dumps writes for a text
Escape(t) ==
    IF t = <<>> THEN <<>>
    ELSE (CASE Head(t) = "LF" -> <<"BACKSLASH", "n">>
            [] Head(t) = "QUOTE" -> <<"BACKSLASH", "QUOTE">>
            [] Head(t) = "BACKSLASH" -> <<"BACKSLASH", "BACKSLASH">>
            [] OTHER -> <<Head(t)>>) \o Escape(Tail(t))

\* json.dumps(x)
Dumps(x) == <<"{", "QUOTE">> \o Escape(x) \o <<"QUOTE", "}">>

\* mutant: json.dumps(x) without the line end
LineWithoutEnd(x) == Dumps(x)

\* (json.dumps(x) + "\n").encode("utf-8")
Line(x) == Dumps(x) \o <<"LF">>

RECURSIVE Lines(_)
\* the bytes the loop over data writes
Lines(data) ==
    IF data = <<>> THEN <<>> ELSE Line(Head(data)) \o Lines(Tail(data))

\* the file after write_jsonl(filename, data, append): mode "ab" keeps what
\* the file holds, mode "wb" drops it; a ".gz" file gets one gzip member
\* per call
FileAfterWrite(gz, file, data, append) ==
    (IF append THEN file ELSE <<>>)
        \o (IF gz THEN <<[member |-> Lines(data)]>> ELSE Lines(data))

RECURSIVE Gunzip(_)
\* gzip.open(...).read(): the members of the file, decompressed, one after
\* the other
Gunzip(file) ==
    IF file = <<>> THEN <<>> ELSE Head(file).member \o Gunzip(Tail(file))

RECURSIVE SplitLines(_, _)
\* for line in fp: the text cut after every newline; cur is the line begun
SplitLines(text, cur) ==
    IF text = <<>> THEN (IF cur = <<>> THEN <<>> ELSE <<cur>>)
    ELSE IF Head(text) = "LF"
         THEN <<Append(cur, "LF")>> \o SplitLines(Tail(text), <<>>)
         ELSE SplitLines(Tail(text), Append(cur, Head(text)))

\* str.isspace() of a character
IsSpace(ch) == ch \in {"SPACE", "LF"}

\* any(not x.isspace() for x in line)
NotBlank(line) == \E i \in 1..Len(line) : ~IsSpace(line[i])

RECURSIVE Strip(_)
\* json.loads ignores white space after the document
Strip(line) ==
    IF line # <<>> /\ IsSpace(line[Len(line)])
    THEN Strip(SubSeq(line, 1, Len(line) - 1))
    ELSE line

\* what json.loads yields for a text that is no JSON document (it raises)
NotJson == <<"JSONDecodeError">>

RECURSIVE Unescape(_)
\* the text of a string literal's body; NotJson if it is malformed
Unescape(b) ==
    IF b = <<>> THEN <<>>
    ELSE IF Head(b) \in {"QUOTE", "LF"} THEN NotJson
    ELSE IF Head(b) = "BACKSLASH"
         THEN IF Len(b) < 2 \/ b[2] \notin {"n", "QUOTE", "BACKSLASH"}
              THEN NotJson
              ELSE LET rest == Unescape(SubSeq(b, 3, Len(b)))
                   IN  IF rest = NotJson THEN NotJson
                       ELSE <<CASE b[2] = "n" -> "LF"
                                [] OTHER -> b[2]>> \o rest
         ELSE LET rest == Unescape(Tail(b))
              IN  IF rest = NotJson THEN NotJson ELSE <<Head(b)>> \o rest

\* json.loads(line)
Loads(line) ==
    LET doc == Strip(line)
    IN  IF /\ Len(doc) >= 4
           /\ doc[1] = "{"
           /\ doc[2] = "QUOTE"
           /\ doc[Len(doc) - 1] = "QUOTE"
           /\ doc[Len(doc)] = "}"
        THEN Unescape(SubSeq(doc, 3, Len(doc) - 2))
        ELSE NotJson

RECURSIVE Parsed(_)
\* the records of the lines that are not blank
Parsed(lines) ==
    IF lines = <<>> THEN <<>>
    ELSE (IF NotBlank(Head(lines)) THEN <<Loads(Head(lines))>> ELSE <<>>)
            \o Parsed(Tail(lines))

\* list(stream_jsonl(filename))
StreamJsonl(gz, file) ==
    Parsed(SplitLines(IF gz THEN Gunzip(file) ELSE file, <<>>))

\* a file name is chosen, with or without the ".gz" suffix; no file yet
InitJsonl ==
    /\ EvalIdle
    /\ CacheAtRest
    /\ EstAtRest
    /\ jl_gz \in BOOLEAN
    /\ jl_file = <<>>
    /\ jl_calls = <<>>
    /\ jl_read = <<>>
    /\ jl_pc = "idle"

\* write_jsonl(filename, data, append): to a new file, or to the file an
\* earlier call has written
WriteJsonl ==
    /\ jl_pc \in {"idle", "written once"}
    /\ \E data \in RecordLists, append \in BOOLEAN :
          /\ jl_file' = FileAfterWrite(jl_gz, jl_file, data, append)
          /\ jl_calls' = Append(jl_calls, [data |-> data, append |-> append])
    /\ jl_pc' = IF jl_pc = "idle" THEN "written once" ELSE "written twice"
    /\ UNCHANGED <<jl_gz, jl_read>>
    /\ UNCHANGED <<evalVars, cacheVars, estVars>>

\* the records of stream_jsonl(filename), read to the end
ReadJsonl ==
    /\ jl_pc \in {"written once", "written twice"}
    /\ jl_read' = StreamJsonl(jl_gz, jl_file)
    /\ jl_pc' = "read"
    /\ UNCHANGED <<jl_gz, jl_file, jl_calls>>
    /\ UNCHANGED <<evalVars, cacheVars, estVars>>

NextJsonl ==
    \/ WriteJsonl
    \/ ReadJsonl

SpecJsonl == InitJsonl /\ [][NextJsonl]_vars

(* ------------------------------------------------------------------ *)
(* estimate_pass_at_k.estimator on its own                            *)
(* ------------------------------------------------------------------ *)

\* the estimator is about to be called with 0 <= c <= n and 1 <= k <= n
InitEst ==
    /\ EvalIdle
    /\ CacheAtRest
    /\ JsonlAtRest
    /\ est_n \in 1..MaxN
    /\ est_c \in 0..est_n
    /\ est_k \in 1..est_n
    /\ est_out = <<>>

\* estimator(n, c, k) returns
CallEstimator ==
    /\ est_out = <<>>
    /\ est_out' = estimator(est_n, est_c, est_k)
    /\ UNCHANGED <<est_n, est_c, est_k>>
    /\ UNCHANGED <<evalVars, cacheVars, jsonlVars>>

NextEst == CallEstimator

SpecEst == InitEst /\ [][NextEst]_vars

(* ------------------------------------------------------------------ *)
(* What the inputs determine, independently of any schedule           *)
(* ------------------------------------------------------------------ *)

\* positions of the samples of task t in the stream, and among the first n
PositionsOf(t) == {i \in 1..Len(sample_file) : sample_file[i].task_id = t}
Before(t, n) == {i \in PositionsOf(t) : i < n}

NumSamples(t) == Cardinality(PositionsOf(t))
NumPassing(t) ==
    Cardinality({i \in PositionsOf(t) : sample_file[i].completion = "ok"})

StreamTaskIds == {sample_file[i].task_id : i \in 1..Len(sample_file)}

\* the j-th position (from 1) of task t in the stream
NthPosition(t, j) ==
    CHOOSE i \in PositionsOf(t) : Cardinality(Before(t, i)) = j - 1

\* the report entry that belongs to the sample at position i
EntryOf(i) ==
    LET r == check_correctness(sample_file[i].task_id,
                               sample_file[i].completion, 0)
    IN  [task_id |-> sample_file[i].task_id,
         solution |-> sample_file[i].completion,
         result |-> r.result,
         passed |-> r.passed]

RECURSIVE SumEstimates(_, _)
\* sum over the tasks of S of the estimate for (samples, passing samples, k)
SumEstimates(S, k) ==
    IF S = {} THEN <<0, 1>>
    ELSE LET t == CHOOSE x \in S : TRUE
         IN  RAdd(estimator(NumSamples(t), NumPassing(t), k),
                  SumEstimates(S \ {t}, k))

MeanEstimate(S, k) == RDivInt(SumEstimates(S, k), Cardinality(S))

Keys(mapping) == {item[1] : item \in mapping}

Requested == {ks[i] : i \in 1..Len(ks)}

\* the run got past the assert and the fan-in
Succeeded == pc = "Done"

(* ------------------------------------------------------------------ *)
(* C1                                                                 *)
(* ------------------------------------------------------------------ *)

\* C1: after a successful run the eval list of every task_id holds one
\* entry per sample of that task_id, in the order of the samples in the
\* stream.
C1_EvalOneEntryPerSample ==
    Succeeded =>
        \A t \in SampleTaskIds :
            /\ Len(output_results.eval[t]) = NumSamples(t)
            /\ \A j \in 1..Len(output_results.eval[t]) :
                  j <= NumSamples(t) =>
                      output_results.eval[t][j] = EntryOf(NthPosition(t, j))

(* ------------------------------------------------------------------ *)
(* C2                                                                 *)
(* ------------------------------------------------------------------ *)

\* the problems with at least k samples
Qualifying(k) == {t \in problems : NumSamples(t) >= k}

\* C2 as claimed: for every requested k for which at least one problem has
\* total >= k, pass@k is reported and is the mean of the estimates over
\* exactly the problems with total >= k.
C2_MeanOverQualifyingProblems ==
    Succeeded =>
        \A k \in Requested :
            Qualifying(k) # {} =>
                <<k, MeanEstimate(Qualifying(k), k)>> \in pass_at_k

\* C2 as amended: pass@k is reported exactly for the requested k for which
\* every problem has total >= k, and is then the mean of the estimates over
\* all problems; one problem with total < k makes pass@k absent.
C2_MeanOverAllOrOmitted ==
    Succeeded =>
        /\ pass_at_k =
              {<<k, MeanEstimate(problems, k)>> :
                  k \in {j \in Requested : Qualifying(j) = problems}}
        /\ \A doc \in out_file : doc.pass_at_k = pass_at_k

\* C2 witness: a finished run where one problem has enough samples for k = 2
\* and the other has not: pass@1 is reported, pass@2 is not
C2_Witness ==
    /\ Succeeded
    /\ problems = {"A", "B"}
    /\ NumSamples("A") = 2
    /\ NumSamples("B") = 1
    /\ Keys(pass_at_k) = {1}

(* ------------------------------------------------------------------ *)
(* C3                                                                 *)
(* ------------------------------------------------------------------ *)

\* the work items are past the dispatch loop without an exception
DispatchComplete ==
    pc \in {"AwaitingResults", "Aggregating", "ComputingStats",
            "WritingReport", "Done"}

\* C3: the i-th submitted call is the one for the i-th sample and carries as
\* completion_id the number of earlier samples of the same task_id; once
\* the loop is through, every sample has been submitted, so the ids of a
\* task with m samples are exactly 0..m-1 in input order.
C3_CompletionIdsGapFree ==
    /\ Len(futures) <= Len(sample_file)
    /\ \A i \in 1..Len(futures) :
          /\ futures[i].task_id = sample_file[i].task_id
          /\ futures[i].completion_id =
                Cardinality(Before(sample_file[i].task_id, i))
          /\ futures[i].state = "FINISHED" =>
                futures[i].result.completion_id = futures[i].completion_id
    /\ DispatchComplete =>
          /\ Len(futures) = Len(sample_file)
          /\ \A t \in SampleTaskIds :
                {futures[i].completion_id : i \in PositionsOf(t)}
                    = 0..(NumSamples(t) - 1)

\* C3 witness: samples of two tasks interleaved, the second sample of a task
\* submitted while the first is still running
C3_Witness ==
    /\ Len(futures) = 3
    /\ futures[1].task_id = futures[3].task_id
    /\ futures[2].task_id # futures[1].task_id
    /\ futures[1].state = "RUNNING"
    /\ futures[3].completion_id = 1

(* ------------------------------------------------------------------ *)
(* C4                                                                 *)
(* ------------------------------------------------------------------ *)

StatisticsStarted ==
    \/ pc \in {"Aggregating", "ComputingStats", "WritingReport", "Done"}
    \/ total # <<>>
    \/ pass_at_k # {}
    \/ out_file # {}

\* C4: statistics are computed and the report written only if the task_ids
\* of the stream are exactly the task_ids of the problems; if they differ,
\* the run is in the error path once the stream is read, with no pass@k
\* and no report file.
C4_ReportOnlyIfAllAttempted ==
    /\ StatisticsStarted => StreamTaskIds = problems
    /\ (pc \notin {"LoadingProblems", "Dispatching"}
            /\ StreamTaskIds # problems)
          => /\ pc \in {"Aborting", "Error"}
             /\ total = <<>>
             /\ pass_at_k = {}
             /\ out_file = {}

\* C4 witness: the samples cover a strict, non-empty subset of the problems
\* and the run has ended in the error state
C4_Witness ==
    /\ pc = "Error"
    /\ problems = {"A", "B"}
    /\ StreamTaskIds = {"A"}
    /\ n_samples = Len(sample_file)

(* ------------------------------------------------------------------ *)
(* C5                                                                 *)
(* ------------------------------------------------------------------ *)

\* how many collected results belong to the i-th submitted call
TimesCollected(i) ==
    LET l == results[futures[i].task_id]
    IN  Cardinality({j \in 1..Len(l) : l[j][1] = futures[i].completion_id})

\* C5: no sample is invoked more than once, every started one exactly once;
\* the fan-in holds one result for every future it was given and none for
\* the others; when it ends, every sample has been invoked once and
\* collected once.
C5_OneInvocationOneResult ==
    /\ \A i \in 1..Len(futures) :
          invocations[i] = IF futures[i].state = "PENDING" THEN 0 ELSE 1
    /\ pc \in {"AwaitingResults", "Aggregating", "ComputingStats"} =>
          \A i \in 1..Len(futures) :
              TimesCollected(i) = IF i \in yielded THEN 1 ELSE 0
    /\ pc \in {"Aggregating", "ComputingStats"} =>
          /\ Len(futures) = Len(sample_file)
          /\ yielded = 1..Len(sample_file)
          /\ \A i \in 1..Len(futures) : invocations[i] = 1

\* C5 witness: the fan-in has ended for a stream with a failing and a
\* timed-out sample
C5_Witness ==
    /\ pc = "Aggregating"
    /\ \E i, j \in 1..Len(futures) :
          /\ futures[i].result.result = "timed out"
          /\ futures[j].result.result = "failed"
          /\ invocations[i] = 1
          /\ invocations[j] = 1

(* ------------------------------------------------------------------ *)
(* C6                                                                 *)
(* ------------------------------------------------------------------ *)

\* C6: at most n_workers invocations are running at any time.
C6_AtMostNWorkersRunning ==
    Cardinality(InState(futures, "RUNNING")) <= n_workers

\* C6 witness: all workers busy and a submitted invocation waiting
C6_Witness ==
    /\ Cardinality(InState(futures, "RUNNING")) = n_workers
    /\ InState(futures, "PENDING") # {}

(* ------------------------------------------------------------------ *)
(* C7                                                                 *)
(* ------------------------------------------------------------------ *)

RECURSIVE FirstSeen(_)
\* the task_ids of the first n samples, each once, in order of appearance
FirstSeen(n) ==
    IF n = 0 THEN <<>>
    ELSE IF Before(sample_file[n].task_id, n) = {}
         THEN Append(FirstSeen(n - 1), sample_file[n].task_id)
         ELSE FirstSeen(n - 1)

RECURSIVE InOrderEval(_)
\* the eval section after the first n samples
InOrderEval(n) ==
    IF n = 0 THEN NoEval
    ELSE EvalWith(InOrderEval(n - 1), sample_file[n].task_id, EntryOf(n))

\* what the run yields in which the executions complete, and are collected,
\* in the order of submission
InOrderKeys == FirstSeen(Len(sample_file))
InOrderTotal == [i \in 1..Len(InOrderKeys) |-> NumSamples(InOrderKeys[i])]
InOrderCorrect == [i \in 1..Len(InOrderKeys) |-> NumPassing(InOrderKeys[i])]

\* C7: for fixed problems, stream and sandbox outcomes, a successful run
\* ends with the same aggregates total and correct, the same pass_at_k and
\* the same eval section as the run whose executions complete in submission
\* order, whatever the order of completion.
C7_SameReportForEveryCompletionOrder ==
    Succeeded =>
        /\ total = InOrderTotal
        /\ correct = InOrderCorrect
        /\ pass_at_k = PassAtK(InOrderTotal, InOrderCorrect)
        /\ output_results.eval = InOrderEval(Len(sample_file))

(* ------------------------------------------------------------------ *)
(* C8                                                                 *)
(* ------------------------------------------------------------------ *)

\* C8: a requested k for which no problem has total >= k is absent from
\* the returned mapping and from the report; the run does not fail once the
\* statistics are reached, and the report carries the other k values.
C8_UnqualifiedKOmitted ==
    /\ pc \in {"WritingReport", "Done"} =>
          \A k \in Requested :
              Qualifying(k) = {} =>
                  /\ k \notin Keys(pass_at_k)
                  /\ k \notin Keys(output_results.pass_at_k)
    /\ pc = "Error" => total = <<>>
    /\ Succeeded =>
          /\ out_file = {output_results}
          /\ \A k \in Requested :
                Qualifying(k) = problems =>
                    k \in Keys(output_results.pass_at_k)

\* C8 witness: a finished run that was asked for k = 2, where no problem has
\* two samples: the report holds pass@1 only
C8_Witness ==
    /\ Succeeded
    /\ 2 \in Requested
    /\ Qualifying(2) = {}
    /\ \E doc \in out_file : Keys(doc.pass_at_k) = {1}

(* ------------------------------------------------------------------ *)
(* C9                                                                 *)
(* ------------------------------------------------------------------ *)

\* some step of the run or of a worker is possible (Aggregate and
\* ComputeStats have no condition but the position of the main thread)
CanStep ==
    \/ pc \in {"Aggregating", "ComputingStats"}
    \/ ENABLED (LoadProblems \/ Dispatch \/ EndDispatch \/ WorkerStart
                  \/ WorkerFinish \/ Collect \/ EndAwait \/ AssembleEntry
                  \/ WriteReport)

\* C9: a failed or timed-out invocation is that sample's result with
\* passed = FALSE; a run whose samples cover exactly the problems never
\* enters the error path and can always take a step until it is done; at
\* the end the report is written and every sample is counted in total,
\* the failed and timed-out ones not in correct.
C9_SandboxFailureAbsorbed ==
    /\ \A i \in 1..Len(futures) :
          futures[i].state = "FINISHED" =>
              /\ futures[i].result.passed = (futures[i].completion = "ok")
              /\ futures[i].result.task_id = futures[i].task_id
    /\ (problems # {} /\ StreamTaskIds = problems) =>
          /\ pc \notin {"Aborting", "Error"}
          /\ pc # "Done" => CanStep
    /\ Succeeded =>
          /\ out_file # {}
          /\ Keys(pass_at_k) # {}
          /\ \A i \in 1..Len(resultsKeys) :
                /\ total[i] = NumSamples(resultsKeys[i])
                /\ correct[i] = NumPassing(resultsKeys[i])
          /\ {resultsKeys[i] : i \in 1..Len(resultsKeys)} = problems
          /\ Len(resultsKeys) = Cardinality(problems)

\* C9 witness: a finished run in which no sample passed: one failed and one
\* timed out
C9_Witness ==
    /\ Succeeded
    /\ \E i, j \in 1..Len(futures) :
          /\ futures[i].result.result = "timed out"
          /\ futures[j].result.result = "failed"
    /\ \A i \in 1..Len(correct) : correct[i] = 0
    /\ out_file # {}

(* ------------------------------------------------------------------ *)
(* C10                                                                *)
(* ------------------------------------------------------------------ *)

\* C10: whenever no make_cache is under way (also after one that raised),
\* every cache path either does not exist or holds the complete dataset,
\* and a read_problems call that returns has read the complete problem set.
C10_NoPartialCacheEntry ==
    /\ dpc \in {"idle", "returned", "raised"} =>
          \A b \in BenchmarkNames : cache_file[b] \in {NoFile, Full(b)}
    /\ dpc = "returned" => read_result = ProblemTaskIds(arg)

(* ------------------------------------------------------------------ *)
(* C11                                                                *)
(* ------------------------------------------------------------------ *)

RECURSIVE Binomial(_, _)
\* the number of k-element subsets of an n-element set
Binomial(n, k) ==
    IF k = 0 THEN 1
    ELSE IF n < k THEN 0
    ELSE (Binomial(n - 1, k - 1) * n) \div k

RECURSIVE ProductDown(_, _, _)
\* the product of (1 - k/i) for i = hi, hi - 1, ..., lo
ProductDown(lo, hi, k) ==
    IF hi < lo THEN <<1, 1>>
    ELSE LET rest == ProductDown(lo, hi - 1, k)
         IN  Norm(<<(hi - k) * rest[1], hi * rest[2]>>)

\* C11: for 0 <= c <= n and 1 <= k <= n the estimator returns a value in
\* [0, 1] equal to 1 - C(n-c, k) / C(n, k), which is 1 minus the product of
\* (1 - k/i) over i = n-c+1..n, and exactly 1 whenever n - c < k.
C11_EstimatorIsOneMinusBinomialRatio ==
    est_out # <<>> =>
        /\ est_out[2] > 0
        /\ 0 <= est_out[1]
        /\ est_out[1] <= est_out[2]
        /\ est_out[1] * Binomial(est_n, est_k) =
              est_out[2] * (Binomial(est_n, est_k)
                              - Binomial(est_n - est_c, est_k))
        /\ est_out = RSub(<<1, 1>>,
                          ProductDown(est_n - est_c + 1, est_n, est_k))
        /\ est_n - est_c < est_k => est_out = <<1, 1>>

\* C11 witness: the estimator has returned 5/6 for n = 4, c = 2, k = 2
C11_Witness ==
    /\ est_n = 4
    /\ est_c = 2
    /\ est_k = 2
    /\ est_out = <<5, 6>>

(* ------------------------------------------------------------------ *)
(* C12                                                                *)
(* ------------------------------------------------------------------ *)

RECURSIVE Held(_)
\* the records a file holds after a sequence of write_jsonl calls: a call
\* with append adds its records at the end, one without replaces them
Held(callSeq) ==
    IF callSeq = <<>> THEN <<>>
    ELSE LET last == callSeq[Len(callSeq)]
         IN  IF last.append
             THEN Held(SubSeq(callSeq, 1, Len(callSeq) - 1)) \o last.data
             ELSE last.data

\* C12: for the plain and the ".gz" encoding, stream_jsonl of a file yields
\* the records write_jsonl wrote, in order; written with append to a file
\* that holds S, it yields S followed by the new records.
C12_WriteThenReadRoundTrip ==
    jl_pc = "read" => jl_read = Held(jl_calls)

\* C12 witness: a ".gz" file written twice, the second time with append,
\* read back; a record holds a newline and one a backslash
C12_Witness ==
    /\ jl_pc = "read"
    /\ jl_gz
    /\ Len(jl_calls) = 2
    /\ jl_calls[2].append
    /\ jl_calls[1].data = <<<<"LF">>, <<"BACKSLASH", "n">>>>
    /\ jl_calls[2].data = <<<<"QUOTE">>>>
    /\ jl_read = <<<<"LF">>, <<"BACKSLASH", "n">>, <<"QUOTE">>>>

(* ------------------------------------------------------------------ *)
(* C13                                                                *)
(* ------------------------------------------------------------------ *)

\* does the name end with the suffix
EndsWith(name, suffix) ==
    /\ Len(name) >= Len(suffix)
    /\ SubSeq(name, Len(name) - Len(suffix) + 1, Len(name)) = suffix

\* the name without the suffix, if it ends with it
Without(name, suffix) ==
    IF EndsWith(name, suffix)
    THEN SubSeq(name, 1, Len(name) - Len(suffix))
    ELSE name

\* <base> of a sample file named <base>.jsonl or <base>.jsonl.gz
BaseName(name) == Without(Without(name, DotGz), DotJsonl)

\* C13: for a sample file named <base>.jsonl.gz as well as for one named
\* <base>.jsonl, the report is written to <base>_eval_results.jsonl.
C13_ReportNamedAfterBase ==
    Succeeded =>
        out_name = BaseName(sample_name)
                     \o <<"_", "e", "v", "a", "l", "_",
                          "r", "e", "s", "u", "l", "t", "s">>
                     \o DotJsonl

(* ------------------------------------------------------------------ *)
(* C14                                                                *)
(* ------------------------------------------------------------------ *)

UnknownName == benchmark_name \notin BenchmarkNames

\* C14: evaluate called with a benchmark name that is not one of the
\* enumerated names fails at once: read_problems raises at the lookup, no
\* download is begun, no sandbox invocation is submitted or run, no report
\* is written, and no step changes the cache directory or a cache file.
C14_UnknownBenchmarkFailsFirst ==
    /\ [](UnknownName =>
            /\ pc \in {"LoadingProblems", "Error"}
            /\ dpc \in {"idle", "raised"}
            /\ tmp_file = NoFile
            /\ plus = NoFile
            /\ problems = {}
            /\ futures = <<>>
            /\ invocations = <<>>
            /\ out_file = {})
    /\ [][UnknownName => UNCHANGED <<cache_dir, cache_file>>]_vars

\* C14 witness: the unknown name has made evaluate fail where no cache
\* directory exists, and none exists afterwards
C14_Witness ==
    /\ UnknownName
    /\ pc = "Error"
    /\ dpc = "raised"
    /\ arg = benchmark_name
    /\ ~cache_dir

(* ------------------------------------------------------------------ *)
(* C15                                                                *)
(* ------------------------------------------------------------------ *)

\* the samples of task t the second loop has gone through
Consumed(t) == Cardinality(Before(t, pos + 1))

\* the buffer of task t holds the results of the samples of t not yet gone
\* through, each once, in the order of the stream
BufferIsRest(t) ==
    /\ Len(results[t]) = NumSamples(t) - Consumed(t)
    /\ \A i \in 1..Len(results[t]) :
          LET j == Consumed(t) + i
              sample == sample_file[NthPosition(t, j)]
          IN  /\ results[t][i][1] = j - 1
              /\ results[t][i][2] =
                    check_correctness(t, sample.completion, j - 1)

\* the entry written last is the one of the sample gone through last
LastEntryIsOfSample ==
    pos > 0 =>
        LET entries == output_results.eval[sample_file[pos].task_id]
        IN  /\ entries # <<>>
            /\ entries[Len(entries)] = EntryOf(pos)

\* C15: during report assembly the j-th sample of a task gets the result
\* whose completion_id is j-1, which is the result of the sandbox
\* invocation issued for that sample; the pop never finds a buffer empty;
\* at the end every buffered result has been taken, each once.
C15_AssemblyPairsSampleWithItsResult ==
    /\ [](pc \in {"WritingReport", "Done"} =>
            /\ \A t \in SampleTaskIds : BufferIsRest(t)
            /\ LastEntryIsOfSample
            /\ pc = "Done" =>
                  /\ pos = Len(sample_file)
                  /\ \A t \in SampleTaskIds : results[t] = <<>>)
    /\ [][pc = "WritingReport" => pc' # "Error"]_vars

\* C15 witness: a failing and then a passing sample of task A; the second
\* loop has paired the first and holds the result with completion_id 1 for
\* the second
C15_Witness ==
    /\ pc = "WritingReport"
    /\ Len(sample_file) >= 2
    /\ sample_file[1] = [task_id |-> "A", completion |-> "bad"]
    /\ sample_file[2] = [task_id |-> "A", completion |-> "ok"]
    /\ pos = 1
    /\ output_results.eval["A"] = <<EntryOf(1)>>
    /\ Head(results["A"])[1] = 1
    /\ Head(results["A"])[2].passed

(* ------------------------------------------------------------------ *)
(* C16                                                                *)
(* ------------------------------------------------------------------ *)

Stages == <<"LoadingProblems", "Dispatching", "AwaitingResults",
            "Aggregating", "ComputingStats", "WritingReport", "Done">>

\* s2 is the stage that follows s1
FollowsStage(s1, s2) ==
    \E i \in 1..(Len(Stages) - 1) : Stages[i] = s1 /\ Stages[i + 1] = s2

\* the ways into the error state: a failed load, or the failed check of the
\* attempts at the end of Dispatching and the shutdown that follows it
EntersError(s1, s2) ==
    \/ s1 = "LoadingProblems" /\ s2 = "Error"
    \/ s1 = "Dispatching" /\ s2 = "Aborting"
    \/ s1 = "Aborting" /\ s2 = "Error"

\* the results list of task t is in ascending order of completion_id
InIdOrder(t) ==
    \A i \in 1..(Len(results[t]) - 1) : results[t][i][1] < results[t][i + 1][1]

\* every dispatched invocation has finished and its result is collected
AllCollected ==
    /\ Len(futures) = Len(sample_file)
    /\ InState(futures, "FINISHED") = 1..Len(futures)
    /\ yielded = 1..Len(futures)

\* C16: the stages LoadingProblems, Dispatching, AwaitingResults,
\* Aggregating, ComputingStats, WritingReport, Done are passed in that
\* order, none skipped or revisited; nothing is dispatched before the
\* problems are loaded; the statistics are computed only after every result
\* is collected and sorted; the report is written only after the
\* statistics; the error state is entered only before ComputingStats.
C16_StagesInOrder ==
    /\ [][pc' # pc => FollowsStage(pc, pc') \/ EntersError(pc, pc')]_vars
    /\ [](/\ pc = "LoadingProblems" => futures = <<>> /\ invocations = <<>>
          /\ futures # <<>> => problems # {}
          /\ pc = "ComputingStats" =>
                /\ AllCollected
                /\ \A t \in SampleTaskIds :
                      InIdOrder(t) /\ Len(results[t]) = NumSamples(t)
          /\ pc \in {"WritingReport", "Done"} =>
                /\ AllCollected
                /\ output_results.pass_at_k = PassAtK(total, correct)
          /\ pc \notin {"WritingReport", "Done"} =>
                output_results = EmptyReport
          /\ pc \in {"Aborting", "Error"} => total = <<>> /\ pass_at_k = {}
          /\ out_file # {} => pc = "Done")

\* C16 witness: a run of two samples finished by different workers has
\* passed all stages and written the report
C16_Witness ==
    /\ pc = "Done"
    /\ out_file # {}
    /\ n_workers = 2
    /\ Len(sample_file) = 2
    /\ AllCollected
    /\ pos = 2

(* ------------------------------------------------------------------ *)
(* C17                                                                *)
(* ------------------------------------------------------------------ *)

\* C17: total and correct hold, per task, the number of its samples in the
\* stream and the number of those that passed; for a k that every problem
\* has samples for, the reported pass@k is the mean over all problems of
\* the estimate for (total, correct, k), whatever the order of completion;
\* totals 2 and 1 with one passing sample each give pass@1 = 3/4.
C17_PassAtKIsMeanOfEstimates ==
    /\ pc \in {"ComputingStats", "WritingReport", "Done"} =>
          \A i \in 1..Len(resultsKeys) :
              /\ total[i] = NumSamples(resultsKeys[i])
              /\ correct[i] = NumPassing(resultsKeys[i])
    /\ Succeeded =>
          /\ \A k \in Requested :
                Qualifying(k) = problems =>
                    \E item \in pass_at_k :
                        /\ item[1] = k
                        /\ item[2] = MeanEstimate(problems, k)
          /\ (/\ problems = {"A", "B"}
              /\ \E t \in problems : \E u \in problems \ {t} :
                    /\ NumSamples(t) = 2 /\ NumPassing(t) = 1
                    /\ NumSamples(u) = 1 /\ NumPassing(u) = 1)
                => <<1, <<3, 4>>>> \in pass_at_k

\* C17 witness: the run of the example, with the single sample of B first
\* in the stream: pass@1 = 3/4 is reported
C17_Witness ==
    /\ Succeeded
    /\ problems = {"A", "B"}
    /\ sample_file = <<[task_id |-> "B", completion |-> "ok"],
                       [task_id |-> "A", completion |-> "bad"],
                       [task_id |-> "A", completion |-> "ok"]>>
    /\ resultsKeys = <<"A", "B">>
    /\ \E doc \in out_file : <<1, <<3, 4>>>> \in doc.pass_at_k

(* ------------------------------------------------------------------ *)
(* C18                                                                *)
(* ------------------------------------------------------------------ *)

\* the i-th submitted work item is in state st
FutureInState(i, st) == i \in InState(futures, st)

\* C18: under fair scheduling, with a sandbox that returns a result for
\* every invocation (a timeout result for one that hangs), the run reaches
\* Done or the error state; every queued invocation is started, every
\* started one finishes and frees its worker, and the fan-in receives every
\* result.
C18_RunTerminates ==
    /\ <>(pc \in {"Done", "Error"})
    /\ \A i \in 1..MaxSamples :
          /\ FutureInState(i, "PENDING") ~> FutureInState(i, "RUNNING")
          /\ FutureInState(i, "RUNNING") ~> FutureInState(i, "FINISHED")
    /\ (pc = "AwaitingResults") ~> Exhausted(futures, yielded)

\* C18 witness: a run with one worker and a hanging completion queued
\* before another sample has come to its end with every result received
C18_Witness ==
    /\ pc = "Done"
    /\ n_workers = 1
    /\ Len(sample_file) >= 2
    /\ sample_file[1].completion = "hang"
    /\ futures[1].result.result = "timed out"
    /\ Exhausted(futures, yielded)
    /\ \A i \in 1..Len(futures) : invocations[i] = 1

(* ------------------------------------------------------------------ *)
(* C19                                                                *)
(* ------------------------------------------------------------------ *)

\* the run is in the error path after the problems were loaded
Aborted == pc \in {"Aborting", "Error"} /\ problems # {}

\* C19: an abort cancels nothing: the check of the attempts is made only
\* when the whole stream has been submitted, every sample read before the
\* abort stays submitted, and when the error leaves evaluate every
\* submitted invocation has run, once, to its end.
C19_AbortWaitsForSubmittedWork ==
    /\ Aborted =>
          /\ Len(futures) = n_samples
          /\ Len(invocations) = n_samples
    /\ (Aborted /\ StreamTaskIds \subseteq problems) =>
          n_samples = Len(sample_file)
    /\ (Aborted /\ n_samples < Len(sample_file)) =>
          sample_file[n_samples + 1].task_id \notin problems
    /\ (pc = "Error" /\ problems # {}) =>
          /\ InState(futures, "FINISHED") = 1..Len(futures)
          /\ \A i \in 1..Len(futures) :
                /\ invocations[i] = 1
                /\ futures[i].result =
                      check_correctness(futures[i].task_id,
                                        futures[i].completion,
                                        futures[i].completion_id)

\* C19 witness: the third sample names a task that is no problem; the two
\* invocations submitted before it have both run when the error is seen
C19_Witness ==
    /\ pc = "Error"
    /\ problems = {"A"}
    /\ Len(sample_file) = 3
    /\ sample_file[3].task_id = "B"
    /\ n_samples = 2
    /\ InState(futures, "FINISHED") = {1, 2}
    /\ invocations = <<1, 1>>

====
